---- MODULE Spec2Model ----
(***************************************************************************)
(* The posts routes (routes/api/posts, src/unnamed/part_000) and the       *)
(* registration route (routes/api/users, src/unnamed/part_001) of the      *)
(* dev_connect_2 REST backend, as a state machine over the document store. *)
(*                                                                         *)
(* A request handler is an async function: it runs up to its first store   *)
(* call, and each later piece runs when that call has answered.  Handlers  *)
(* of different requests interleave at the store calls.  A handler that    *)
(* reads a post and saves it again is therefore two steps here: the read   *)
(* (FindPost) and the rest of the handler (the checks, the edit of the     *)
(* in-memory document, the save and the response).  The code between two   *)
(* store calls touches only the handler's own document, so it is joined    *)
(* to the store call that follows it.                                      *)
(*                                                                         *)
(* Fields no modelled handler branches on (text, name, avatar, date, the   *)
(* password hash) are left out of the documents.                           *)
(***************************************************************************)
EXTENDS Integers, Sequences, FiniteSets

\* ---------------------------------------------------------------- bounds
NUsers == 2
MaxPosts == 1
MaxComments == 2
NReq == 2
NEmails == 2
NReg == 3
MaxStored == 3

UserIds == 1..NUsers
PostIds == 1..MaxPosts
\* req.params.post_id: 0 stands for a string that is no ObjectId
ParamIds == 0..MaxPosts
CommentIds == 1..MaxComments
Slots == 1..NReq
Emails == 1..NEmails
RegSlots == 1..NReg

VARIABLES posts, nextPostId, nextCommentId, req, users, reg

vars == <<posts, nextPostId, nextCommentId, req, users, reg>>

\* ------------------------------------------------------- JavaScript arrays
Min(a, b) == IF a < b THEN a ELSE b

Max(a, b) == IF a > b THEN a ELSE b

\* Array.prototype.unshift(x)
Unshift(arr, x) == <<x>> \o arr

\* Array.prototype.indexOf(x): 0-based index of the first match, -1 without one
IndexOf(arr, x) ==
  IF \E i \in 1..Len(arr) : arr[i] = x
  THEN (CHOOSE i \in 1..Len(arr) :
          arr[i] = x /\ \A j \in 1..(i - 1) : arr[j] # x) - 1
  ELSE -1

\* Array.prototype.splice(start, 1): a negative start counts from the end
Splice(arr, start) ==
  LET n == Len(arr)
      s == IF start < 0 THEN Max(n + start, 0) ELSE Min(start, n)
  IN IF s >= n THEN arr
     ELSE [i \in 1..(n - 1) |-> IF i <= s THEN arr[i] ELSE arr[i + 1]]

\* arr.map(e => e.user.toString())
MapUser(arr) == [i \in 1..Len(arr) |-> arr[i].user]

\* ------------------------------------------------------------- documents
\* null: what findById answers when no document matches
NoPost == [user |-> 0, likes |-> <<>>, comments |-> <<>>]

NewPost(u) == [user |-> u, likes |-> <<>>, comments |-> <<>>]

NoReq == [pc |-> "idle", kind |-> "none", user |-> 0, pid |-> 0, cid |-> 0,
          doc |-> NoPost, resp |-> 0]

\* a finished handler: resp 0 means that no response was sent
Done(r, code) == [req[r] EXCEPT !.pc = "done", !.cid = 0, !.doc = NoPost,
                                 !.resp = code]

Begin(kind, u, pid, cid) ==
  [pc |-> "found", kind |-> kind, user |-> u, pid |-> pid, cid |-> cid,
   doc |-> NoPost, resp |-> 0]

\* post.save() that the store accepts: the stored document is replaced by
\* the handler's copy (last write wins); a save of a removed document
\* matches nothing.  Every store call can also fail and throw (ok = FALSE
\* in the actions).
StoreWrite(stored, doc) == IF stored = NoPost THEN NoPost ELSE doc

\* a slot can take a request; alone: no other handler is between its
\* store calls
Free(r, alone) ==
  /\ req[r].pc # "found"
  /\ alone => \A q \in Slots : req[q].pc # "found"

PostsUnchanged == UNCHANGED <<posts, nextPostId, nextCommentId>>

RegUnchanged == UNCHANGED <<users, reg>>

NoReg == [pc |-> "idle", email |-> 0, found |-> FALSE, resp |-> 0]

Init ==
  /\ posts = [p \in PostIds |-> NoPost]
  /\ nextPostId = 1
  /\ nextCommentId = 1
  /\ req = [r \in Slots |-> NoReq]
  /\ users = <<>>
  /\ reg = [r \in RegSlots |-> NoReg]

\* ------------------------------------------------- the handlers' own code
\* the catch block of each posts handler: the response it sends for a
\* thrown error (0: none).  like and unlike have an empty catch block.
Caught(kind, objectIdError) ==
  CASE kind = "createPost" -> 500
    [] kind = "deletePost" -> IF objectIdError THEN 404 ELSE 500
    [] kind \in {"like", "unlike"} -> 0
    [] kind \in {"addComment", "deleteComment"} -> 500

\* post.user.toString() !== req.user.id
NotPostAuthor(post, u) == post.user # u

\* return res.status(401).res({...}): res has no method res, the call throws
\* a TypeError inside the try block and the catch block answers it
DeleteNotAuthorResponse == Caught("deletePost", FALSE)

\* mutants of the already-liked check: the check dropped; an off-by-one
AlreadyLikedNever(likes, u) == FALSE

AlreadyLikedOffByOne(likes, u) ==
  Len(SelectSeq(likes, LAMBDA like : like.user = u)) > 1

\* post.likes.filter(like => like.user.toString() === req.user.id).length > 0
AlreadyLiked(likes, u) == Len(SelectSeq(likes, LAMBDA like : like.user = u)) > 0

\* mutant of the like edit: push in place of unshift
LikeEditPush(likes, u) == Append(likes, [user |-> u])

\* post.likes.unshift({ user: req.user.id })
LikeEdit(likes, u) == Unshift(likes, [user |-> u])

\* mutant of the not-yet-liked check: the check dropped
NotYetLikedNever(likes, u) == FALSE

\* post.likes.filter(like => like.user.toString() === req.user.id).length === 0
NotYetLiked(likes, u) == Len(SelectSeq(likes, LAMBDA like : like.user = u)) = 0

\* mutant of the unlike edit: indexOf over the entries, not over their user
\* ids, finds nothing and splice(-1, 1) takes the last entry
UnlikeEditIndexMiss(likes, u) == Splice(likes, -1)

\* removeIndex = post.likes.map(...).indexOf(req.user.id); splice(removeIndex, 1)
UnlikeEdit(likes, u) == Splice(likes, IndexOf(MapUser(likes), u))

\* post.comments.unshift(newComment)
AddCommentEdit(comments, id, u) == Unshift(comments, [id |-> id, user |-> u])

\* post.comments.find(comment => comment.id === req.params.comment_id):
\* the position of the first match, 0 for undefined
FindComment(comments, cid) ==
  IF \E i \in 1..Len(comments) : comments[i].id = cid
  THEN CHOOSE i \in 1..Len(comments) :
         comments[i].id = cid /\ \A j \in 1..(i - 1) : comments[j].id # cid
  ELSE 0

\* mutant of the comment's ownership check: the check dropped
NotCommentAuthorNever(comment, u) == FALSE

\* comment.user.toString() !== req.user.id
NotCommentAuthor(comment, u) == comment.user # u

\* removeIndex = post.comments.map(comment => comment.user.toString())
\*                 .indexOf(req.user.id); post.comments.splice(removeIndex, 1)
DeleteCommentEdit(comments, u) == Splice(comments, IndexOf(MapUser(comments), u))

\* ------------------------------------------------------ posts: the actions
\* validationResult(req) is not empty: check('text').not().isEmpty() failed
Invalid(r, kind, u, alone) ==
  /\ Free(r, alone)
  /\ kind \in {"createPost", "addComment"}
  /\ req' = [req EXCEPT ![r] =
               [Begin(kind, u, 0, 0) EXCEPT !.pc = "done", !.resp = 400]]
  /\ PostsUnchanged /\ RegUnchanged

\* POST api/posts: the author is read, the post is stored.  The token's
\* user is a stored user: no route of these files removes one.
CreatePost(r, u, ok, alone) ==
  /\ Free(r, alone)
  /\ IF ok
     THEN /\ nextPostId <= MaxPosts
          /\ posts' = [posts EXCEPT ![nextPostId] = NewPost(u)]
          /\ nextPostId' = nextPostId + 1
          /\ req' = [req EXCEPT ![r] =
                [Begin("createPost", u, 0, 0) EXCEPT !.pc = "done", !.resp = 200]]
     ELSE /\ req' = [req EXCEPT ![r] =
                [Begin("createPost", u, 0, 0)
                   EXCEPT !.pc = "done", !.resp = Caught("createPost", FALSE)]]
          /\ UNCHANGED <<posts, nextPostId>>
  /\ UNCHANGED nextCommentId
  /\ RegUnchanged

ReadKinds == {"deletePost", "like", "unlike", "addComment", "deleteComment"}

\* comment ids are handed out up to MaxComments
PendingComments == Cardinality({q \in Slots :
                     req[q].pc = "found" /\ req[q].kind = "addComment"})

\* await Post.findById(req.params.post_id): the handler's first store call.
\* A post_id that is no ObjectId throws a CastError (err.kind 'ObjectId'),
\* a failing store throws another error; otherwise the handler holds the
\* stored document, or null.
FindPost(r, kind, u, pid, cid, ok, alone) ==
  /\ Free(r, alone)
  /\ kind \in ReadKinds
  /\ (kind = "deleteComment") <=> (cid # 0)
  /\ kind = "addComment" => nextCommentId + PendingComments <= MaxComments
  /\ req' = [req EXCEPT ![r] =
       IF pid = 0 \/ ~ok
       THEN [Begin(kind, u, pid, 0)
               EXCEPT !.pc = "done", !.resp = Caught(kind, pid = 0)]
       ELSE [Begin(kind, u, pid, cid) EXCEPT !.doc = posts[pid]]]
  /\ PostsUnchanged /\ RegUnchanged

\* DELETE api/posts/:post_id after the read; post.remove() of a document
\* that is gone removes nothing
DeletePostHandle(r, ok) ==
  /\ req[r].pc = "found" /\ req[r].kind = "deletePost"
  /\ LET q == req[r]
         post == q.doc
     IN IF post = NoPost
        THEN req' = [req EXCEPT ![r] = Done(r, 404)] /\ UNCHANGED posts
        ELSE IF NotPostAuthor(post, q.user)
        THEN req' = [req EXCEPT ![r] = Done(r, DeleteNotAuthorResponse)]
             /\ UNCHANGED posts
        ELSE IF ~ok
        THEN req' = [req EXCEPT ![r] = Done(r, Caught(q.kind, FALSE))]
             /\ UNCHANGED posts
        ELSE /\ posts' = [posts EXCEPT ![q.pid] = NoPost]
             /\ req' = [req EXCEPT ![r] = Done(r, 200)]
  /\ UNCHANGED <<nextPostId, nextCommentId>>
  /\ RegUnchanged

\* PUT api/posts/like/:post_id after the read; post.likes of null throws
LikeHandle(r, ok) ==
  /\ req[r].pc = "found" /\ req[r].kind = "like"
  /\ LET q == req[r]
         post == q.doc
     IN IF post = NoPost \/ (~AlreadyLiked(post.likes, q.user) /\ ~ok)
        THEN req' = [req EXCEPT ![r] = Done(r, Caught(q.kind, FALSE))]
             /\ UNCHANGED posts
        ELSE IF AlreadyLiked(post.likes, q.user)
        THEN req' = [req EXCEPT ![r] = Done(r, 400)] /\ UNCHANGED posts
        ELSE /\ posts' = [posts EXCEPT ![q.pid] =
                  StoreWrite(@, [post EXCEPT !.likes = LikeEdit(@, q.user)])]
             /\ req' = [req EXCEPT ![r] = Done(r, 200)]
  /\ UNCHANGED <<nextPostId, nextCommentId>>
  /\ RegUnchanged

\* PUT api/posts/unlike/:post_id after the read
UnlikeHandle(r, ok) ==
  /\ req[r].pc = "found" /\ req[r].kind = "unlike"
  /\ LET q == req[r]
         post == q.doc
     IN IF post = NoPost \/ (~NotYetLiked(post.likes, q.user) /\ ~ok)
        THEN req' = [req EXCEPT ![r] = Done(r, Caught(q.kind, FALSE))]
             /\ UNCHANGED posts
        ELSE IF NotYetLiked(post.likes, q.user)
        THEN req' = [req EXCEPT ![r] = Done(r, 400)] /\ UNCHANGED posts
        ELSE /\ posts' = [posts EXCEPT ![q.pid] =
                  StoreWrite(@, [post EXCEPT !.likes = UnlikeEdit(@, q.user)])]
             /\ req' = [req EXCEPT ![r] = Done(r, 200)]
  /\ UNCHANGED <<nextPostId, nextCommentId>>
  /\ RegUnchanged

\* POST api/posts/comment/:post_id after the reads; the new comment's id is
\* made by its constructor, and an id whose save failed is never seen again
AddCommentHandle(r, ok) ==
  /\ req[r].pc = "found" /\ req[r].kind = "addComment"
  /\ LET q == req[r]
         post == q.doc
     IN IF post = NoPost \/ ~ok
        THEN req' = [req EXCEPT ![r] = Done(r, Caught(q.kind, FALSE))]
             /\ UNCHANGED <<posts, nextCommentId>>
        ELSE /\ nextCommentId <= MaxComments
             /\ posts' = [posts EXCEPT ![q.pid] =
                  StoreWrite(@, [post EXCEPT !.comments =
                                   AddCommentEdit(@, nextCommentId, q.user)])]
             /\ nextCommentId' = nextCommentId + 1
             /\ req' = [req EXCEPT ![r] = Done(r, 200)]
  /\ UNCHANGED nextPostId
  /\ RegUnchanged

\* DELETE api/posts/comment/:post_id/:comment_id after the read
DeleteCommentHandle(r, ok) ==
  /\ req[r].pc = "found" /\ req[r].kind = "deleteComment"
  /\ LET q == req[r]
         post == q.doc
         at == FindComment(post.comments, q.cid)
     IN IF post = NoPost
        THEN req' = [req EXCEPT ![r] = Done(r, Caught(q.kind, FALSE))]
             /\ UNCHANGED posts
        ELSE IF at = 0
        THEN req' = [req EXCEPT ![r] = Done(r, 404)] /\ UNCHANGED posts
        ELSE IF NotCommentAuthor(post.comments[at], q.user)
        THEN req' = [req EXCEPT ![r] = Done(r, 401)] /\ UNCHANGED posts
        ELSE IF ~ok
        THEN req' = [req EXCEPT ![r] = Done(r, Caught(q.kind, FALSE))]
             /\ UNCHANGED posts
        ELSE /\ posts' = [posts EXCEPT ![q.pid] =
                  StoreWrite(@, [post EXCEPT !.comments =
                                   DeleteCommentEdit(@, q.user)])]
             /\ req' = [req EXCEPT ![r] = Done(r, 200)]
  /\ UNCHANGED <<nextPostId, nextCommentId>>
  /\ RegUnchanged

\* ------------------------------------------------- registration (users)
\* User.findOne({ email }) answers a user
EmailStored(stored, email) == \E i \in 1..Len(stored) : stored[i].email = email

\* mutant of the duplicate check: the check dropped
UserExistsNever(found) == FALSE

\* if (user): the handler answers 400 'User already exists'
UserExists(found) == found

\* the catch block of the registration handler, console.error(500).send(..):
\* console.error answers undefined, so the catch block throws a TypeError
\* itself and the handler ends without a response
RegisterCaught == 0

\* user.save() on a store that keeps emails unique: a second user with a
\* stored email is refused with a duplicate-key error
SaveRefused(stored, email) == EmailStored(stored, email)

\* validationResult(req) is not empty
RegisterInvalid(r) ==
  /\ reg[r].pc # "found"
  /\ reg' = [reg EXCEPT ![r] = [NoReg EXCEPT !.pc = "done", !.resp = 400]]
  /\ UNCHANGED users
  /\ PostsUnchanged /\ UNCHANGED req

\* let user = await User.findOne({ email })
FindOne(r, email, ok) ==
  /\ reg[r].pc # "found"
  /\ reg' = [reg EXCEPT ![r] =
       IF ok
       THEN [pc |-> "found", email |-> email,
             found |-> EmailStored(users, email), resp |-> 0]
       ELSE [pc |-> "done", email |-> email, found |-> FALSE,
             resp |-> RegisterCaught]]
  /\ UNCHANGED users
  /\ PostsUnchanged /\ UNCHANGED req

\* POST api/users after the read: the duplicate check, the hash, the save
\* and the token; jwt.sign's callback throws outside the try block when
\* signing fails
RegisterHandle(r, ok, signed) ==
  /\ reg[r].pc = "found"
  /\ LET q == reg[r]
     IN IF UserExists(q.found)
        THEN reg' = [reg EXCEPT ![r] = [q EXCEPT !.pc = "done", !.resp = 400]]
             /\ UNCHANGED users
        ELSE IF ~ok \/ SaveRefused(users, q.email)
        THEN reg' = [reg EXCEPT ![r] =
                       [q EXCEPT !.pc = "done", !.resp = RegisterCaught]]
             /\ UNCHANGED users
        ELSE /\ Len(users) < MaxStored
             /\ users' = Append(users, [id |-> Len(users) + 1, email |-> q.email])
             /\ reg' = [reg EXCEPT ![r] =
                  [q EXCEPT !.pc = "done", !.resp = IF signed THEN 200 ELSE 0]]
  /\ PostsUnchanged /\ UNCHANGED req

RegNext ==
  \E r \in RegSlots :
    \/ RegisterInvalid(r)
    \/ \E email \in Emails, ok \in BOOLEAN : FindOne(r, email, ok)
    \/ \E ok \in BOOLEAN, signed \in BOOLEAN : RegisterHandle(r, ok, signed)

RegSpec == Init /\ [][RegNext]_vars

\* ------------------------------------------------------ specifications
LikeKinds == {"deletePost", "like", "unlike"}

CommentKinds == {"deletePost", "addComment", "deleteComment"}

\* cid is read by the comment-deleting handler alone
Params(kinds) ==
  {x \in kinds \X UserIds \X ParamIds \X ({0} \cup CommentIds) :
     (x[1] = "deleteComment") <=> (x[4] # 0)}

\* the like routes with post creation and removal; alone: one request at a time
LikesStep(alone) ==
  \E r \in Slots :
    \/ \E u \in UserIds : Invalid(r, "createPost", u, alone)
    \/ \E u \in UserIds, ok \in BOOLEAN : CreatePost(r, u, ok, alone)
    \/ \E x \in Params(LikeKinds) : \E ok \in BOOLEAN :
         FindPost(r, x[1], x[2], x[3], x[4], ok, alone)
    \/ \E ok \in BOOLEAN : DeletePostHandle(r, ok)
    \/ \E ok \in BOOLEAN : LikeHandle(r, ok)
    \/ \E ok \in BOOLEAN : UnlikeHandle(r, ok)

\* the comment routes with post creation and removal
CommentsStep(alone) ==
  \E r \in Slots :
    \/ \E u \in UserIds : Invalid(r, "addComment", u, alone)
    \/ \E u \in UserIds, ok \in BOOLEAN : CreatePost(r, u, ok, alone)
    \/ \E x \in Params(CommentKinds) : \E ok \in BOOLEAN :
         FindPost(r, x[1], x[2], x[3], x[4], ok, alone)
    \/ \E ok \in BOOLEAN : DeletePostHandle(r, ok)
    \/ \E ok \in BOOLEAN : AddCommentHandle(r, ok)
    \/ \E ok \in BOOLEAN : DeleteCommentHandle(r, ok)

\* every posts route, requests served concurrently.  The specifications
\* below take the like routes and the comment routes apart: a property of
\* one kind of request is checked among the requests it is about.
Next == LikesStep(FALSE) \/ CommentsStep(FALSE)

Spec == Init /\ [][Next]_vars

\* like and unlike requests (and post creation and removal), interleaved
LikesNext == LikesStep(FALSE)

LikesSpec == Init /\ [][LikesNext]_vars

\* the same requests, each finished before the next is taken
SeqLikesNext == LikesStep(TRUE)

SeqLikesSpec == Init /\ [][SeqLikesNext]_vars

\* comment requests (and post creation and removal), one at a time
SeqCommentsNext == CommentsStep(TRUE)

SeqCommentsSpec == Init /\ [][SeqCommentsNext]_vars

\* ------------------------------------------------------------ the claims
\* how often user u is in a like list
Occurs(likes, u) == Cardinality({i \in 1..Len(likes) : likes[i].user = u})

\* a like list without the entries of user u, the rest in order
RemoveUser(likes, u) == SelectSeq(likes, LAMBDA like : like.user # u)

\* a comment list without the comment whose id is cid, the rest in order
RemoveId(comments, cid) == SelectSeq(comments, LAMBDA c : c.id # cid)

\* the entries of a list
Entries(arr) == {arr[i] : i \in 1..Len(arr)}

\* slot r holds a handler of this kind that has read its post
Reading(r, kind) == req[r].pc = "found" /\ req[r].kind = kind

\* slot r's handler of this kind has ended with this response
Answered(r, kind, code) ==
  req[r].pc = "done" /\ req[r].kind = kind /\ req[r].resp = code

\* C1: in every reachable state of interleaved like and unlike requests, a
\* stored post's like list holds each user at most once.
C1_NoDuplicateLikes ==
  \A p \in PostIds : \A u \in UserIds : Occurs(posts[p].likes, u) <= 1

\* two like requests of one user on one post have both answered 200 and the
\* user is in the stored list once
C1_Witness ==
  \E r1, r2 \in Slots :
    /\ r1 # r2
    /\ Answered(r1, "like", 200) /\ Answered(r2, "like", 200)
    /\ req[r1].user = req[r2].user /\ req[r1].pid = req[r2].pid
    /\ req[r1].pid \in PostIds
    /\ Occurs(posts[req[r1].pid].likes, req[r1].user) = 1

\* C2 (the claim as stated): a delete request for a stored post by a user
\* other than its author answers 401 and leaves the post stored.
C2_NonAuthorDeleteAnswers401 ==
  [][\A r \in Slots :
       (/\ Reading(r, "deletePost")
        /\ req'[r] # req[r]
        /\ req[r].doc # NoPost
        /\ req[r].doc.user # req[r].user)
       => (/\ req'[r].resp = 401
           /\ posts'[req[r].pid] = posts[req[r].pid])]_vars

\* C3 (the claim as stated): a successful deleteComment leaves the comment
\* list as it was with the comment of the given id removed and every other
\* comment kept in order.
C3_DeletesTheTargetedComment ==
  [][\A r \in Slots :
       (/\ Reading(r, "deleteComment")
        /\ req'[r].pc = "done" /\ req'[r].resp = 200)
       => posts'[req[r].pid].comments =
            RemoveId(posts[req[r].pid].comments, req[r].cid)]_vars

\* C4: with requests served one at a time, a deleteComment request of user R
\* whose target is another user's comment answers 401 and leaves the store
\* as it is, and no step of a deleteComment request of R takes a comment of
\* another author out of a stored comment list.
C4_OnlyAuthorDeletesComment ==
  [][\A r \in Slots :
       (Reading(r, "deleteComment") /\ req'[r] # req[r])
       => LET q == req[r]
              held == q.doc.comments
          IN /\ (\E c \in Entries(held) : c.id = q.cid /\ c.user # q.user)
                  => (req'[r].resp = 401 /\ posts' = posts)
             /\ \A p \in PostIds :
                  \A c \in Entries(posts[p].comments) :
                    c \notin Entries(posts'[p].comments) => c.user = q.user]_vars

\* a deleteComment request has answered 401 and the other user's comments
\* are stored
C4_Witness ==
  \E r \in Slots :
    /\ Answered(r, "deleteComment", 401)
    /\ req[r].pid \in PostIds
    /\ posts[req[r].pid].comments # <<>>
    /\ \A c \in Entries(posts[req[r].pid].comments) : c.user # req[r].user

\* C5: a like request that read a like list holding its user answers 400,
\* saves nothing and leaves the stored like lists as they are.
C5_SecondLikeRejected ==
  [][\A r \in Slots :
       (/\ Reading(r, "like")
        /\ req'[r] # req[r]
        /\ Occurs(req[r].doc.likes, req[r].user) > 0)
       => (/\ req'[r].pc = "done" /\ req'[r].resp = 400
           /\ posts' = posts)]_vars

\* a like request has answered 400 and the like list holds its user once
C5_Witness ==
  \E r \in Slots :
    /\ Answered(r, "like", 400)
    /\ req[r].pid \in PostIds
    /\ posts[req[r].pid].likes = <<[user |-> req[r].user]>>

\* C6: an unlike request that read a post whose like list does not hold its
\* user answers 400, saves nothing and leaves every stored like in place.
C6_UnlikeOfNotLikedRejected ==
  [][\A r \in Slots :
       (/\ Reading(r, "unlike")
        /\ req'[r] # req[r]
        /\ req[r].doc # NoPost
        /\ Occurs(req[r].doc.likes, req[r].user) = 0)
       => (/\ req'[r].pc = "done" /\ req'[r].resp = 400
           /\ posts' = posts)]_vars

\* an unlike request has answered 400 and another user's like is stored
C6_Witness ==
  \E r \in Slots :
    /\ Answered(r, "unlike", 400)
    /\ req[r].pid \in PostIds
    /\ posts[req[r].pid].likes # <<>>
    /\ Occurs(posts[req[r].pid].likes, req[r].user) = 0

\* C7: at most one stored user has a given email in every reachable state
\* of interleaved registrations, and a registration whose find-by-email
\* answered a user answers 400 and stores nothing.
C7_OneUserPerEmail ==
  [][/\ \A i, j \in 1..Len(users') :
          users'[i].email = users'[j].email => i = j
     /\ \A r \in RegSlots :
          (reg[r].pc = "found" /\ reg'[r] # reg[r] /\ reg[r].found)
          => (reg'[r].pc = "done" /\ reg'[r].resp = 400 /\ users' = users)]_vars

\* three registrations of one email: the first stored the user and answered
\* 200, the second answered 400, the third read before the first saved
C7_Witness ==
  \E r1, r2, r3 \in RegSlots : \E e \in Emails :
    /\ reg[r1] = [pc |-> "done", email |-> e, found |-> FALSE, resp |-> 200]
    /\ reg[r2] = [pc |-> "done", email |-> e, found |-> TRUE, resp |-> 400]
    /\ reg[r3] = [pc |-> "found", email |-> e, found |-> FALSE, resp |-> 0]
    /\ Cardinality({i \in 1..Len(users) : users[i].email = e}) = 1

\* C8 (the claim as stated): a like, unlike, addComment or deleteComment
\* handler whose post id matched no stored post ends with a 500 or a 404.
C8_ErrorsAnswered500Or404 ==
  [][\A r \in Slots :
       (/\ req[r].pc = "found"
        /\ req[r].kind \in {"like", "unlike", "addComment", "deleteComment"}
        /\ req[r].doc = NoPost
        /\ req'[r] # req[r])
       => (req'[r].pc = "done" /\ req'[r].resp \in {500, 404})]_vars

\* C9: a like request that answers 200 stores the list it read with its
\* user in front, whatever the stored list has become since the read: the
\* likes saved in between are overwritten.
C9_LikeSaveOverwrites ==
  [][\A r \in Slots :
       (/\ Reading(r, "like")
        /\ req'[r].pc = "done" /\ req'[r].resp = 200
        /\ posts[req[r].pid] # NoPost)
       => posts'[req[r].pid].likes =
            <<[user |-> req[r].user]>> \o req[r].doc.likes]_vars

\* two like requests of different users read the empty like list; the
\* first has saved and answered 200, the second is about to save its copy
C9_Witness ==
  \E r1, r2 \in Slots :
    /\ Answered(r1, "like", 200)
    /\ Reading(r2, "like")
    /\ req[r1].pid = req[r2].pid /\ req[r1].user # req[r2].user
    /\ req[r2].doc # NoPost /\ req[r2].doc.likes = <<>>
    /\ posts[req[r2].pid].likes = <<[user |-> req[r1].user]>>

\* C10: with requests served one at a time, a like that answers 200 puts
\* its user in front of the stored list and an unlike of it would restore
\* the list; an unlike that answers 200 removes its user's entry alone.
C10_LikeThenUnlikeRestores ==
  [][\A r \in Slots :
       LET q == req[r]
           was == posts[q.pid].likes
           now == posts'[q.pid].likes
       IN /\ (Reading(r, "like") /\ req'[r].pc = "done" /\ req'[r].resp = 200)
               => (/\ now = <<[user |-> q.user]>> \o was
                   /\ UnlikeEdit(now, q.user) = was)
          /\ (Reading(r, "unlike") /\ req'[r].pc = "done" /\ req'[r].resp = 200)
               => (/\ now = RemoveUser(was, q.user)
                   /\ Len(now) = Len(was) - 1)]_vars

\* a like and then an unlike of one user have answered 200 and the other
\* user's like is stored as before
C10_Witness ==
  \E r1, r2 \in Slots :
    /\ Answered(r1, "like", 200) /\ Answered(r2, "unlike", 200)
    /\ req[r1].user = req[r2].user /\ req[r1].pid = req[r2].pid
    /\ req[r1].pid \in PostIds
    /\ posts[req[r1].pid].likes # <<>>
    /\ Occurs(posts[req[r1].pid].likes, req[r1].user) = 0

====
